---- MODULE Spec2Model ----
(***************************************************************************)
(* State-machine model of the n8n-nodes-naper nodes.                       *)
(*                                                                         *)
(*   Spec         the Image Compose node: ImageCompose.execute, one action *)
(*                per stretch of code between two awaits of the item loop. *)
(*   SpecTrigger  the SQS Trigger: processMessages, the done-promise       *)
(*                handlers and closeFunction.                              *)
(*   SpecOptimizer   findBestFitRotation within FillEntireBackground mode, *)
(*                on catalogue-sized images.                               *)
(*   SpecImageNodes  Image Compose or Image Cropper.                       *)
(*   SpecTriggerFair the SQS Trigger on an event loop that keeps running.  *)
(*   SpecItemNodes   SQS Delete, SQS Reject, Liquid Template or Mustache   *)
(*                Template: the item loop of execute.                      *)
(*                                                                         *)
(* Image geometry is integer arithmetic; the scale factor is kept as an    *)
(* exact fraction <<num, den>> and Math.round is computed on it.           *)
(***************************************************************************)
EXTENDS Integers, Sequences, FiniteSets, TLC

VARIABLES
    items,            \* ImageCompose: this.getInputData()
    i,                \* ImageCompose: loop index of execute (1-based)
    returnData,       \* ImageCompose: returnData
    pc,               \* ImageCompose: where execute is suspended
    cur,              \* ImageCompose: locals of the item being processed
    failure,          \* ImageCompose: the error execute rejected with, "" if none
    config,           \* SQSTrigger: the node parameters read by trigger()
    activeProcesses,  \* SQSTrigger: activeProcesses
    canProcessMore,   \* SQSTrigger: canProcessMore
    isRunning,        \* SQSTrigger: isRunning
    timeout,          \* SQSTrigger: the pending timer set by setTimeout, if any
    poll,             \* SQSTrigger: where processMessages is suspended
    unsettled,        \* SQSTrigger: emitted executions whose donePromise is pending
    thenQueue,        \* SQSTrigger: resolved donePromises whose .then has yet to run
    catchQueue,       \* SQSTrigger: rejected donePromises whose .catch has yet to run
    cropItems,        \* ImageCropper: this.getInputData()
    cropI,            \* ImageCropper: loop index of execute (1-based)
    cropReturnData,   \* ImageCropper: returnData
    cropPc,           \* ImageCropper: where execute is suspended
    cropCur,          \* ImageCropper: locals of the item being processed
    node,             \* SQS Delete, SQS Reject, Liquid Template, Mustache Template: which one runs
    nodeItems,        \* the same: this.getInputData()
    nodeI,            \* the same: loop index of execute (1-based)
    nodeReturnData,   \* the same: returnData
    nodePc,           \* the same: where execute is suspended
    nodeLog           \* the same: level of the line logged for each item done

composeVars == <<items, i, returnData, pc, cur, failure>>

triggerVars == <<config, activeProcesses, canProcessMore, isRunning, timeout,
                 poll, unsettled, thenQueue, catchQueue>>

cropperVars == <<cropItems, cropI, cropReturnData, cropPc, cropCur>>

itemNodeVars == <<node, nodeItems, nodeI, nodeReturnData, nodePc, nodeLog>>

vars == <<items, i, returnData, pc, cur, failure,
          config, activeProcesses, canProcessMore, isRunning, timeout,
          poll, unsettled, thenQueue, catchQueue,
          cropItems, cropI, cropReturnData, cropPc, cropCur,
          node, nodeItems, nodeI, nodeReturnData, nodePc, nodeLog>>

----------------------------------------------------------------------------
(* Bounds of the model *)

MaxItems == 2
MaxBgW == 4
MaxBgH == 4
MaxPadding == 1
MaxProd == 3
MaxConcurrent == 2
MaxBatch == 2
MaxCropDim == 2

----------------------------------------------------------------------------
(* Program constants and parameter domains *)

WHITE == 240

CHANNELS == 4

BaseProp == "bg"
ProdProp == "product"
OutProp == "composed"

HAligns == {"start", "center", "end"}
VPrefs == {"top", "center", "bottom"}
ComposeModes == {"detectWhite", "fillAll"}

\* Manual rotation values tried by the model; 0 means "no override".
TiltAngles == {0, 90}

\* RGBA pixels of the decoded background (after ensureAlpha): one whose three
\* colour channels all exceed the threshold, one with a channel exactly at it.
WhitePixel == <<241, 241, 241, 255>>
DarkPixel == <<255, 240, 255, 255>>

ErrInsufficient == "Insufficient white area for the product."
ErrTypeError == "TypeError: cannot read properties of undefined"
ErrCodec == "sharp error"

----------------------------------------------------------------------------
(* Small helpers *)

Abs(n) == IF n < 0 THEN -n ELSE n

\* Math.floor(n / 2): \div rounds towards minus infinity, as Math.floor does.
FloorHalf(n) == n \div 2

----------------------------------------------------------------------------
(* Region Detector: ImageCompose.execute, "traditional" branch *)

\* The rows of pixels the model draws for a background of width bgW: all
\* white, all dark, or dark at the first or the last column only.
RowPatterns(bgW) ==
    { [x \in 1..bgW |-> WhitePixel], [x \in 1..bgW |-> DarkPixel] }
    \cup { [x \in 1..bgW |-> IF x = k THEN DarkPixel ELSE WhitePixel] :
               k \in {1, bgW} }

\* The bytes of a row of pixels, then of the rows 1..n of an image.
RECURSIVE FlattenRow(_, _)
FlattenRow(row, n) ==
    IF n = 0 THEN <<>> ELSE FlattenRow(row, n - 1) \o row[n]

RECURSIVE FlattenRows(_, _, _)
FlattenRows(img, bgW, n) ==
    IF n = 0 THEN <<>>
    ELSE FlattenRows(img, bgW, n - 1) \o FlattenRow(img[n], bgW)

\* The raw buffers sharp returns for the bgW x bgH backgrounds of the model:
\* bgW*bgH pixels of CHANNELS bytes each, row after row.
RawBuffers(bgW, bgH) ==
    { FlattenRows(img, bgW, bgH) : img \in [1..bgH -> RowPatterns(bgW)] }

\* The test of line 294 on the pixel whose first byte is data[idx] (0-based idx).
IsForegroundStrict(data, idx) ==
    ~(data[idx + 1] >= WHITE /\ data[idx + 2] >= WHITE /\ data[idx + 3] >= WHITE)

IsForeground(data, idx) ==
    ~(data[idx + 1] > WHITE /\ data[idx + 2] > WHITE /\ data[idx + 3] > WHITE)

\* The two nested loops of lines 288-299, pixel k = y*bgW + x at a time.
RECURSIVE ScanFrom(_, _, _, _, _, _)
ScanFrom(data, bgW, bgH, k, minY, maxY) ==
    IF k >= bgW * bgH
    THEN [minY |-> minY, maxY |-> maxY]
    ELSE LET y == k \div bgW
             x == k % bgW
             idx == (y * bgW + x) * CHANNELS
             fg == IsForeground(data, idx)
         IN  ScanFrom(data, bgW, bgH, k + 1,
                      IF fg /\ y < minY THEN y ELSE minY,
                      IF fg /\ y > maxY THEN y ELSE maxY)

\* minY / maxY as they stand after line 303.
ScanBounds(data, bgW, bgH) ==
    LET s == ScanFrom(data, bgW, bgH, 0, bgH, -1)
    IN  IF s.maxY = -1 THEN [minY |-> 0, maxY |-> -1] ELSE s

Rect(x, y, w, h) == [x |-> x, y |-> y, w |-> w, h |-> h]

Area(r) == r.w * r.h

\* Mutant of Candidates: the bottom rectangle starts on the band's last row.
CandidatesBottomOffByOne(minY, maxY, bgW, bgH) ==
    LET top == IF minY > 0 THEN <<Rect(0, 0, bgW, minY)>> ELSE <<>>
        bottom == IF maxY < bgH - 1
                  THEN <<Rect(0, maxY, bgW, bgH - maxY)>>
                  ELSE <<>>
        both == top \o bottom
    IN  IF Len(both) = 0 THEN <<Rect(0, 0, bgW, bgH)>> ELSE both

\* rects as built by lines 305-315.
Candidates(minY, maxY, bgW, bgH) ==
    LET top == IF minY > 0 THEN <<Rect(0, 0, bgW, minY)>> ELSE <<>>
        bottom == IF maxY < bgH - 1
                  THEN <<Rect(0, maxY + 1, bgW, bgH - maxY - 1)>>
                  ELSE <<>>
        both == top \o bottom
    IN  IF Len(both) = 0 THEN <<Rect(0, 0, bgW, bgH)>> ELSE both

\* Array.prototype.find: the first element with r.y === 0 (wantTop) or with
\* r.y !== 0; <<>> stands for undefined, <<r>> for the element found.
RECURSIVE FindRect(_, _, _)
FindRect(rects, wantTop, k) ==
    IF k > Len(rects) THEN <<>>
    ELSE IF (rects[k].y = 0) = wantTop THEN <<rects[k]>>
    ELSE FindRect(rects, wantTop, k + 1)

\* Array.prototype.sort with comparator (a, b) => b.w*b.h - a.w*a.h: a stable
\* sort by decreasing area (insertion behind the elements that are not smaller).
RECURSIVE InsertByArea(_, _)
InsertByArea(sorted, r) ==
    IF Len(sorted) = 0 THEN <<r>>
    ELSE IF Area(Head(sorted)) >= Area(r)
         THEN <<Head(sorted)>> \o InsertByArea(Tail(sorted), r)
         ELSE <<r>> \o sorted

RECURSIVE SortByAreaDesc(_)
SortByAreaDesc(rects) ==
    IF Len(rects) = 0 THEN <<>>
    ELSE InsertByArea(SortByAreaDesc(SubSeq(rects, 1, Len(rects) - 1)),
                      rects[Len(rects)])

\* rects after line 320: sort() reorders the array in place, find() does not.
RectsAfterSelect(rects, vPref) ==
    IF vPref \in {"top", "bottom"} THEN rects ELSE SortByAreaDesc(rects)

\* Mutant of SelectRect: "bottom" is treated like "center" (largest area).
SelectRectBottomAsLargest(rects, vPref) ==
    IF vPref = "top" THEN FindRect(rects, TRUE, 1)
    ELSE <<SortByAreaDesc(rects)[1]>>

\* whiteRect as assigned by lines 317-320 (<<>> when find() returns undefined).
SelectRect(rects, vPref) ==
    IF vPref = "top" THEN FindRect(rects, TRUE, 1)
    ELSE IF vPref = "bottom" THEN FindRect(rects, FALSE, 1)
    ELSE <<SortByAreaDesc(rects)[1]>>

----------------------------------------------------------------------------
(* Product rotation and the Placement Planner *)

\* sin of 0, 5, ..., 90 degrees, in 1/10000.
SinTable ==
    <<0, 872, 1736, 2588, 3420, 4226, 5000, 5736, 6428, 7071,
      7660, 8192, 8660, 9063, 9397, 9659, 9848, 9962, 10000>>

SinOf(deg) == SinTable[(deg \div 5) + 1]

CosOf(deg) == SinTable[((90 - deg) \div 5) + 1]

CeilDiv(a, b) == (a + b - 1) \div b

\* Width and height sharp reports after rotate(angle) of an opaque w x h image
\* (angle a multiple of 5 in -90..90): the bounding box of the turned rectangle.
\* A quarter turn swaps the two, angle 0 keeps them.
RotatedDims(w, h, angle) ==
    LET a == Abs(angle)
    IN  [width  |-> CeilDiv(w * CosOf(a) + h * SinOf(a), 10000),
         height |-> CeilDiv(w * SinOf(a) + h * CosOf(a), 10000)]

\* Mutant of TiltAngle: prodAspect taken as width / height.
TiltAngleWidthOverHeight(tiltAngleParam, prodW0, prodH0) ==
    IF tiltAngleParam # 0 THEN tiltAngleParam
    ELSE IF 10 * prodW0 > 18 * prodH0 THEN -90
    ELSE 0

\* tiltAngle of lines 324-327; prodAspect > 1.8 is height/width > 18/10.
TiltAngle(tiltAngleParam, prodW0, prodH0) ==
    IF tiltAngleParam # 0 THEN tiltAngleParam
    ELSE IF 10 * prodH0 > 18 * prodW0 THEN -90
    ELSE 0

\* Mutant of InsufficientArea: only the width is tested.
InsufficientAreaWidthOnly(availW, availH) == availW <= 0

\* The test of line 341.
InsufficientArea(availW, availH) == availW <= 0 \/ availH <= 0

\* Mutant of ScaleOf: Math.max in place of Math.min.
ScaleOfMax(availW, availH, prodW, prodH) ==
    IF availW * prodH >= availH * prodW
    THEN [num |-> availW, den |-> prodW]
    ELSE [num |-> availH, den |-> prodH]

\* scale of line 343 (and 169-172) as the exact fraction num/den:
\* Math.min(availW / prodW, availH / prodH).
ScaleOf(availW, availH, prodW, prodH) ==
    IF availW * prodH <= availH * prodW
    THEN [num |-> availW, den |-> prodW]
    ELSE [num |-> availH, den |-> prodH]

RECURSIVE IsPowerOfTwo(_)
IsPowerOfTwo(n) == n = 1 \/ (n > 1 /\ n % 2 = 0 /\ IsPowerOfTwo(n \div 2))

\* Whether n * (num/den) lies exactly half way between two integers.
IsTie(n, scale) == (2 * n * scale.num + scale.den) % (2 * scale.den) = 0

\* Mutant of RoundScaled: Math.ceil in place of Math.round.
RoundScaledCeil(n, scale, tieDown) ==
    CeilDiv(n * scale.num, scale.den)

\* Math.round(n * scale) of lines 344-345 (and 173-174). Math.round takes an
\* exact half up. The double n * (num/den) can fall just below an exact half
\* when num/den is not a binary fraction, and is then rounded down: tieDown
\* says whether it does.
RoundScaled(n, scale, tieDown) ==
    LET up == (2 * n * scale.num + scale.den) \div (2 * scale.den)
    IN  IF IsTie(n, scale) /\ tieDown /\ ~IsPowerOfTwo(scale.den)
        THEN up - 1
        ELSE up

\* The ways the two roundings of a w x h product can come out: both when one
\* of the two values is an exact half that the double can miss, one otherwise.
TieOutcomes(w, h, scale) ==
    IF (IsTie(w, scale) \/ IsTie(h, scale)) /\ ~IsPowerOfTwo(scale.den)
    THEN BOOLEAN
    ELSE {FALSE}

\* Mutant of PosX: alignment "end" forgets the padding.
PosXEndNoPadding(whiteRect, newW, padding, hAlign) ==
    IF hAlign = "center" THEN whiteRect.x + FloorHalf(whiteRect.w - newW)
    ELSE IF hAlign = "end" THEN whiteRect.x + whiteRect.w - newW
    ELSE whiteRect.x + padding

\* Mutant of PosX: alignment "end" counts the right edge as inclusive.
PosXEndInclusive(whiteRect, newW, padding, hAlign) ==
    IF hAlign = "center" THEN whiteRect.x + FloorHalf(whiteRect.w - newW)
    ELSE IF hAlign = "end" THEN whiteRect.x + whiteRect.w - newW - padding - 1
    ELSE whiteRect.x + padding

\* posX of lines 351-355.
PosX(whiteRect, newW, padding, hAlign) ==
    IF hAlign = "center" THEN whiteRect.x + FloorHalf(whiteRect.w - newW)
    ELSE IF hAlign = "end" THEN whiteRect.x + whiteRect.w - newW - padding
    ELSE whiteRect.x + padding

\* posY of lines 356-360.
PosY(whiteRect, newH, padding, vPref) ==
    IF vPref = "center" THEN whiteRect.y + FloorHalf(whiteRect.h - newH)
    ELSE IF vPref = "bottom" THEN whiteRect.y + whiteRect.h - newH - padding
    ELSE whiteRect.y + padding

----------------------------------------------------------------------------
(* Rotation Optimizer: findBestFitRotation *)

\* The k-th angle tried by the for loop of line 144: -90, -85, ..., 90.
AngleCount == 37

AngleAt(k) == -90 + 5 * (k - 1)

\* Mutant of Footprint: Math.floor in place of Math.round.
FootprintFloor(prodW0, prodH0, bgW, bgH, padding, tieDown, angle) ==
    LET meta == IF angle # 0
                THEN RotatedDims(prodW0, prodH0, angle)
                ELSE [width |-> prodW0, height |-> prodH0]
        availW == bgW - 2 * padding
        availH == bgH - 2 * padding
        scale == ScaleOf(availW, availH, meta.width, meta.height)
    IN  IF availW <= 0 \/ availH <= 0
        THEN [skip |-> TRUE, w |-> 0, h |-> 0]
        ELSE [skip |-> FALSE,
              w |-> (meta.width * scale.num) \div scale.den,
              h |-> (meta.height * scale.num) \div scale.den]

\* Lines 146-174 for one angle: the rotated and trimmed product's size (the
\* original's for angle 0) scaled into the padded background. skip is the
\* `continue` of line 166.
Footprint(prodW0, prodH0, bgW, bgH, padding, tieDown, angle) ==
    LET meta == IF angle # 0
                THEN RotatedDims(prodW0, prodH0, angle)
                ELSE [width |-> prodW0, height |-> prodH0]
        availW == bgW - 2 * padding
        availH == bgH - 2 * padding
        scale == ScaleOf(availW, availH, meta.width, meta.height)
    IN  IF availW <= 0 \/ availH <= 0
        THEN [skip |-> TRUE, w |-> 0, h |-> 0]
        ELSE [skip |-> FALSE,
              w |-> RoundScaled(meta.width, scale, tieDown),
              h |-> RoundScaled(meta.height, scale, tieDown)]

\* Mutant of BestFitFrom: the turned candidates are skipped, only angle 0 is
\* ever recorded.
RECURSIVE BestFitFromUprightOnly(_, _, _, _)
BestFitFromUprightOnly(fp, k, bestArea, best) ==
    IF k > AngleCount THEN best
    ELSE IF fp[k].skip \/ AngleAt(k) # 0
    THEN BestFitFromUprightOnly(fp, k + 1, bestArea, best)
    ELSE IF fp[k].w * fp[k].h > bestArea
    THEN BestFitFromUprightOnly(fp, k + 1, fp[k].w * fp[k].h,
                     <<[angle |-> AngleAt(k), width |-> fp[k].w,
                        height |-> fp[k].h]>>)
    ELSE BestFitFromUprightOnly(fp, k + 1, bestArea, best)

\* Mutant of BestFitFrom: `>=` in place of `>`, the last of several equal
\* areas wins.
RECURSIVE BestFitFromLastWins(_, _, _, _)
BestFitFromLastWins(fp, k, bestArea, best) ==
    IF k > AngleCount THEN best
    ELSE IF fp[k].skip THEN BestFitFromLastWins(fp, k + 1, bestArea, best)
    ELSE IF fp[k].w * fp[k].h >= bestArea
    THEN BestFitFromLastWins(fp, k + 1, fp[k].w * fp[k].h,
                     <<[angle |-> AngleAt(k), width |-> fp[k].w,
                        height |-> fp[k].h]>>)
    ELSE BestFitFromLastWins(fp, k + 1, bestArea, best)

\* The for loop of lines 144-181 from its k-th angle on, fp[k] being the
\* footprint of that angle. best is <<>> for the empty object {} and
\* <<[angle, width, height]>> once an angle has been recorded.
RECURSIVE BestFitFrom(_, _, _, _)
BestFitFrom(fp, k, bestArea, best) ==
    IF k > AngleCount THEN best
    ELSE IF fp[k].skip THEN BestFitFrom(fp, k + 1, bestArea, best)
    ELSE IF fp[k].w * fp[k].h > bestArea
    THEN BestFitFrom(fp, k + 1, fp[k].w * fp[k].h,
                     <<[angle |-> AngleAt(k), width |-> fp[k].w,
                        height |-> fp[k].h]>>)
    ELSE BestFitFrom(fp, k + 1, bestArea, best)

findBestFitRotation(prodW0, prodH0, bgW, bgH, padding, tieDown) ==
    LET fp == [k \in 1..AngleCount |->
                 Footprint(prodW0, prodH0, bgW, bgH, padding, tieDown, AngleAt(k))]
    IN  BestFitFrom(fp, 1, 0, <<>>)

----------------------------------------------------------------------------
(* ImageCompose.execute *)

\* The rows y of a raw bgW x bgH buffer that hold at least one pixel whose red,
\* green and blue are not all greater than 240.
ForegroundRows(data, bgW, bgH) ==
    { y \in 0..(bgH - 1) :
        \E x \in 0..(bgW - 1) :
           LET p == (y * bgW + x) * 4
           IN  data[p + 1] <= 240 \/ data[p + 2] <= 240 \/ data[p + 3] <= 240 }

\* The binary properties an input item can carry: both images, or the
\* background alone.
InputBinaries ==
    { [bg |-> "image:bg", product |-> "image:product"],
      [bg |-> "image:bg"] }

\* Input lists of n items; the k-th item's json is [id |-> k].
InputLists(n) ==
    { [k \in 1..n |-> [json |-> [id |-> k], binary |-> b[k]]] :
          b \in [1..n -> InputBinaries] }

NoCur ==
    [mode |-> "", bgW |-> 0, bgH |-> 0, fgRows |-> {}, vPref |-> "",
     minY |-> 0, maxY |-> 0, rects |-> <<>>, whiteRect |-> <<>>,
     padding |-> 0, tiltAngleParam |-> 0, tiltAngle |-> 0,
     prodW0 |-> 0, prodH0 |-> 0, prodW |-> 0, prodH |-> 0,
     scale |-> [num |-> 0, den |-> 1], newW |-> 0, newH |-> 0,
     hAlign |-> "", posX |-> 0, posY |-> 0, bestAngle |-> 0]

ComposeInit ==
    /\ items \in UNION { InputLists(n) : n \in 0..MaxItems }
    /\ i = 1
    /\ returnData = <<>>
    /\ pc = "loop"
    /\ cur = NoCur
    /\ failure = ""

\* An exception leaves the for loop and execute: execute holds no try/catch,
\* so its promise rejects and returnData is never handed back. locals is what
\* the state keeps of the failed item's variables.
Throw(msg, locals) ==
    /\ pc' = "thrown"
    /\ failure' = msg
    /\ cur' = locals
    /\ UNCHANGED <<items, i, returnData>>

\* Mutant of ComposedItem: the spread of item.binary is left out.
ComposedItemOutputOnly(item) ==
    [json |-> item.json,
     binary |-> [k \in {OutProp} |-> "image/png"]]

\* The output item of lines 268-278 and 367-377.
ComposedItem(item) ==
    [json |-> item.json,
     binary |-> [k \in (DOMAIN item.binary) \cup {OutProp} |->
                    IF k = OutProp THEN "image/png" ELSE item.binary[k]]]

\* Lines 194-235: the parameters are looked up, the two buffers are read from
\* item.binary (a missing property makes `.data` a TypeError) and the
\* background's metadata is requested.
StartItem ==
    /\ pc = "loop"
    /\ i <= Len(items)
    /\ IF {BaseProp, ProdProp} \subseteq DOMAIN items[i].binary
       THEN /\ pc' = "bgMeta"
            /\ cur' = NoCur
            /\ UNCHANGED <<items, i, returnData, failure>>
       ELSE Throw(ErrTypeError, NoCur)
    /\ UNCHANGED <<triggerVars, cropperVars, itemNodeVars>>

\* Lines 235-243: the background's width and height arrive and the mode picks
\* the branch. getNodeParameter is a pure lookup: the model resolves each
\* parameter where the code first uses its value.
BgMetadata ==
    /\ pc = "bgMeta"
    /\ \E bgW \in 1..MaxBgW, bgH \in 1..MaxBgH, composeMode \in ComposeModes :
         /\ cur' = [cur EXCEPT !.bgW = bgW, !.bgH = bgH, !.mode = composeMode]
         /\ pc' = IF composeMode = "fillAll" THEN "fill" ELSE "raw"
    /\ UNCHANGED <<items, i, returnData, failure>>
    /\ UNCHANGED <<triggerVars, cropperVars, itemNodeVars>>

\* Lines 281-323: the raw pixels arrive, are scanned for the foreground rows,
\* the candidate rectangles are built and whiteRect is selected. Of the raw
\* buffer, which the code does not use again, the state keeps fgRows: the rows
\* that hold a pixel with a colour channel of 240 or less.
ScanBackground ==
    /\ pc = "raw"
    /\ \E data \in RawBuffers(cur.bgW, cur.bgH), vPref \in VPrefs :
         LET b == ScanBounds(data, cur.bgW, cur.bgH)
             rects == Candidates(b.minY, b.maxY, cur.bgW, cur.bgH)
         IN  cur' = [cur EXCEPT !.fgRows = ForegroundRows(data, cur.bgW, cur.bgH),
                                !.vPref = vPref,
                                !.minY = b.minY, !.maxY = b.maxY,
                                !.rects = RectsAfterSelect(rects, vPref),
                                !.whiteRect = SelectRect(rects, vPref)]
    /\ pc' = "prodMeta"
    /\ UNCHANGED <<items, i, returnData, failure>>
    /\ UNCHANGED <<triggerVars, cropperVars, itemNodeVars>>

\* Lines 323-348: the product is measured, turned if asked for or too tall, and
\* scaled into whiteRect less the padding. Reading whiteRect.w of an undefined
\* whiteRect is a TypeError; sharp's resize rejects a width or height that is
\* not a positive integer. The scan's minY, maxY and rects are not read again
\* and the state lets go of them (and of fgRows) here.
MeasureProduct ==
    /\ pc = "prodMeta"
    /\ \E prodW0 \in 1..MaxProd, prodH0 \in 1..MaxProd,
          tiltAngleParam \in TiltAngles, padding \in 0..MaxPadding :
         LET tiltAngle == TiltAngle(tiltAngleParam, prodW0, prodH0)
             rot == IF tiltAngle # 0
                    THEN RotatedDims(prodW0, prodH0, tiltAngle)
                    ELSE [width |-> prodW0, height |-> prodH0]
             prodW == rot.width
             prodH == rot.height
             base == [cur EXCEPT !.fgRows = {}, !.minY = 0, !.maxY = 0,
                         !.rects = <<>>, !.padding = padding,
                         !.tiltAngleParam = tiltAngleParam,
                         !.tiltAngle = tiltAngle,
                         !.prodW0 = prodW0, !.prodH0 = prodH0,
                         !.prodW = prodW, !.prodH = prodH]
         IN  IF cur.whiteRect = <<>>
             THEN Throw(ErrTypeError, cur)
             ELSE LET whiteRect == cur.whiteRect[1]
                      availW == whiteRect.w - 2 * padding
                      availH == whiteRect.h - 2 * padding
                      scale == ScaleOf(availW, availH, prodW, prodH)
                  IN  IF InsufficientArea(availW, availH)
                      THEN Throw(ErrInsufficient, base)
                      ELSE \E tieDown \in TieOutcomes(prodW, prodH, scale) :
                           LET newW == RoundScaled(prodW, scale, tieDown)
                               newH == RoundScaled(prodH, scale, tieDown)
                           IN
                           IF newW <= 0 \/ newH <= 0
                           THEN Throw(ErrCodec,
                                      [base EXCEPT !.scale = scale,
                                          !.newW = newW, !.newH = newH])
                           ELSE /\ cur' = [base EXCEPT !.scale = scale,
                                              !.newW = newW, !.newH = newH]
                                /\ pc' = "resize"
                                /\ UNCHANGED <<items, i, returnData, failure>>
    /\ UNCHANGED <<triggerVars, cropperVars, itemNodeVars>>

\* Lines 350-365: the offset is computed and the composition is requested.
PlaceProduct ==
    /\ pc = "resize"
    /\ \E hAlign \in HAligns :
         cur' = [cur EXCEPT !.hAlign = hAlign,
                    !.posX = PosX(cur.whiteRect[1], cur.newW, cur.padding, hAlign),
                    !.posY = PosY(cur.whiteRect[1], cur.newH, cur.padding, cur.vPref)]
    /\ pc' = "composite"
    /\ UNCHANGED <<items, i, returnData, failure>>
    /\ UNCHANGED <<triggerVars, cropperVars, itemNodeVars>>

\* Lines 367-379: the composed item is pushed and the loop goes on.
EmitComposed ==
    /\ pc = "composite"
    /\ returnData' = Append(returnData, ComposedItem(items[i]))
    /\ i' = i + 1
    /\ pc' = "loop"
    /\ cur' = NoCur
    /\ UNCHANGED <<items, failure>>
    /\ UNCHANGED <<triggerVars, cropperVars, itemNodeVars>>

\* Lines 245-266: fillAll. With no angle recorded best is {}: sharp(undefined)
\* waits for a stream nobody writes, so execute never settles, or rejects.
\* hAlign and vPref were read at lines 209-213; the branch does not use them.
\* The product's width and height are drawn from prodDims, the padding from
\* paddings.
FillFrom(prodDims, paddings) ==
    /\ pc = "fill"
    /\ \E prodW0 \in prodDims, prodH0 \in prodDims,
          padding \in paddings, tieDown \in BOOLEAN :
         \E best \in { findBestFitRotation(prodW0, prodH0, cur.bgW, cur.bgH,
                                           padding, tieDown) } :
         LET whiteRect == Rect(0, 0, cur.bgW, cur.bgH)
         IN  IF best = <<>>
             THEN /\ pc' \in {"hung", "thrown"}
                  /\ failure' = IF pc' = "thrown" THEN ErrCodec ELSE ""
                  /\ cur' = [cur EXCEPT !.padding = padding,
                                !.prodW = prodW0, !.prodH = prodH0]
                  /\ UNCHANGED <<items, i, returnData>>
             ELSE /\ \E hAlign \in HAligns, vPref \in VPrefs :
                       cur' = [cur EXCEPT !.whiteRect = <<whiteRect>>,
                                !.hAlign = hAlign, !.vPref = vPref,
                                !.padding = padding,
                                !.prodW = prodW0, !.prodH = prodH0,
                                !.bestAngle = best[1].angle,
                                !.newW = best[1].width, !.newH = best[1].height,
                                !.posX = whiteRect.x
                                         + FloorHalf(whiteRect.w - best[1].width),
                                !.posY = whiteRect.y
                                         + FloorHalf(whiteRect.h - best[1].height)]
                  /\ pc' = "fillComposite"
                  /\ UNCHANGED <<items, i, returnData, failure>>
    /\ UNCHANGED <<triggerVars, cropperVars, itemNodeVars>>

FillBackground == FillFrom(1..MaxProd, 0..MaxPadding)

\* Lines 268-278: the composed item is pushed and the loop goes on.
EmitFilled ==
    /\ pc = "fillComposite"
    /\ returnData' = Append(returnData, ComposedItem(items[i]))
    /\ i' = i + 1
    /\ pc' = "loop"
    /\ cur' = NoCur
    /\ UNCHANGED <<items, failure>>
    /\ UNCHANGED <<triggerVars, cropperVars, itemNodeVars>>

\* Any awaited sharp call (metadata, raw, rotate, resize, composite) can reject.
SharpRejects ==
    /\ pc \in {"bgMeta", "raw", "prodMeta", "resize", "composite",
               "fill", "fillComposite"}
    /\ Throw(ErrCodec, NoCur)
    /\ UNCHANGED <<triggerVars, cropperVars, itemNodeVars>>

\* Line 381: the loop is over and returnData is returned.
ReturnOutput ==
    /\ pc = "loop"
    /\ i > Len(items)
    /\ pc' = "returned"
    /\ UNCHANGED <<items, i, returnData, cur, failure>>
    /\ UNCHANGED <<triggerVars, cropperVars, itemNodeVars>>

ComposeNext ==
    \/ StartItem
    \/ BgMetadata
    \/ ScanBackground
    \/ MeasureProduct
    \/ PlaceProduct
    \/ EmitComposed
    \/ FillBackground
    \/ EmitFilled
    \/ SharpRejects
    \/ ReturnOutput

----------------------------------------------------------------------------
(* SQSTrigger.trigger *)

ConcurrencyControls == {"none", "fixed", "cpu", "memory"}

\* The parameters trigger() reads once: concurrencyControl,
\* maxConcurrentProcesses (used when the control is "fixed") and maxMessages.
TriggerConfigs ==
    [concurrencyControl : ConcurrencyControls,
     maxConcurrentProcesses : 1..MaxConcurrent,
     maxMessages : 1..MaxBatch]

\* The model stops receiving once this many emitted executions are unsettled
\* or settled with their callback still to run, so that the unlimited controls
\* stay finite; the "fixed" control stays below it.
InFlightCap == MaxConcurrent + MaxBatch

\* Mutant of FixedLimitAllows: room for a whole batch is required.
FixedLimitAllowsBatch(active, cfg) ==
    active + cfg.maxMessages <= cfg.maxConcurrentProcesses

\* Line 206: the "fixed" answer of checkResourceUsage.
FixedLimitAllows(active, cfg) ==
    active < cfg.maxConcurrentProcesses

\* trigger() up to its first call of processMessages (line 351).
TriggerInit ==
    /\ config \in TriggerConfigs
    /\ activeProcesses = 0
    /\ canProcessMore = TRUE
    /\ isRunning = TRUE
    /\ timeout = "none"
    /\ poll = "start"
    /\ unsettled = 0
    /\ thenQueue = 0
    /\ catchQueue = 0

\* Mutant of PollStart: the isRunning test of line 266 is missing.
PollStartIgnoresClose ==
    /\ poll = "start"
    /\ \/ /\ config.concurrencyControl = "none"
          /\ poll' = "allowed"
          /\ UNCHANGED canProcessMore
       \/ /\ config.concurrencyControl = "fixed"
          /\ poll' = IF FixedLimitAllows(activeProcesses, config)
                     THEN "allowed" ELSE "refused"
          /\ UNCHANGED canProcessMore
       \/ /\ config.concurrencyControl \in {"cpu", "memory"}
          /\ \E elapsed \in BOOLEAN, belowLimit \in BOOLEAN :
               /\ canProcessMore' = IF elapsed THEN belowLimit
                                    ELSE canProcessMore
               /\ poll' = IF canProcessMore' THEN "allowed" ELSE "refused"
    /\ UNCHANGED <<config, activeProcesses, isRunning, timeout,
                   unsettled, thenQueue, catchQueue>>
    /\ UNCHANGED <<composeVars, cropperVars, itemNodeVars>>

\* Lines 266-269 with checkResourceUsage (202-252): processMessages starts,
\* returns at once when the trigger is closed, and otherwise asks
\* checkResourceUsage, whose answer it awaits. For "cpu" and "memory" the
\* answer is refreshed from the machine's load when resourceCheckInterval has
\* elapsed, and is the last one otherwise.
PollStart ==
    /\ poll = "start"
    /\ IF ~isRunning
       THEN /\ poll' = "idle"
            /\ UNCHANGED canProcessMore
       ELSE \/ /\ config.concurrencyControl = "none"
               /\ poll' = "allowed"
               /\ UNCHANGED canProcessMore
            \/ /\ config.concurrencyControl = "fixed"
               /\ poll' = IF FixedLimitAllows(activeProcesses, config)
                          THEN "allowed" ELSE "refused"
               /\ UNCHANGED canProcessMore
            \/ /\ config.concurrencyControl \in {"cpu", "memory"}
               /\ \E elapsed \in BOOLEAN, belowLimit \in BOOLEAN :
                    /\ canProcessMore' = IF elapsed THEN belowLimit
                                         ELSE canProcessMore
                    /\ poll' = IF canProcessMore' THEN "allowed" ELSE "refused"
    /\ UNCHANGED <<config, activeProcesses, isRunning, timeout,
                   unsettled, thenQueue, catchQueue>>
    /\ UNCHANGED <<composeVars, cropperVars, itemNodeVars>>

\* Mutant of PollRefused: a refused poll returns without queueing
\* processMessages again.
PollRefusedNoTimer ==
    /\ poll = "refused"
    /\ poll' = "idle"
    /\ UNCHANGED <<config, activeProcesses, canProcessMore, isRunning, timeout,
                   unsettled, thenQueue, catchQueue>>
    /\ UNCHANGED <<composeVars, cropperVars, itemNodeVars>>

\* Lines 269-275: the check refused; processMessages is queued again after
\* pollInterval and returns.
PollRefused ==
    /\ poll = "refused"
    /\ timeout' = "interval"
    /\ poll' = "idle"
    /\ UNCHANGED <<config, activeProcesses, canProcessMore, isRunning,
                   unsettled, thenQueue, catchQueue>>
    /\ UNCHANGED <<composeVars, cropperVars, itemNodeVars>>

\* Lines 277-286: the check allowed; ReceiveMessage is sent and awaited.
PollReceive ==
    /\ poll = "allowed"
    /\ poll' = "receiving"
    /\ UNCHANGED <<config, activeProcesses, canProcessMore, isRunning, timeout,
                   unsettled, thenQueue, catchQueue>>
    /\ UNCHANGED <<composeVars, cropperVars, itemNodeVars>>

\* Lines 288-338: SQS answers with n >= 1 messages (at most MaxNumberOfMessages);
\* the counter is raised by n, every message is emitted with its donePromise,
\* and processMessages is queued again at once.
ReceiveBatch ==
    /\ poll = "receiving"
    /\ \E n \in 1..config.maxMessages :
         /\ unsettled + thenQueue + catchQueue + n <= InFlightCap
         /\ activeProcesses' = activeProcesses + n
         /\ unsettled' = unsettled + n
    /\ timeout' = "zero"
    /\ poll' = "idle"
    /\ UNCHANGED <<config, canProcessMore, isRunning, thenQueue, catchQueue>>
    /\ UNCHANGED <<composeVars, cropperVars, itemNodeVars>>

\* Mutant of ReceiveNothing: an empty answer polls again at once.
ReceiveNothingImmediate ==
    /\ poll = "receiving"
    /\ timeout' = "zero"
    /\ poll' = "idle"
    /\ UNCHANGED <<config, activeProcesses, canProcessMore, isRunning,
                   unsettled, thenQueue, catchQueue>>
    /\ UNCHANGED <<composeVars, cropperVars, itemNodeVars>>

\* Lines 288, 347-348: SQS answers with no message.
ReceiveNothing ==
    /\ poll = "receiving"
    /\ timeout' = "interval"
    /\ poll' = "idle"
    /\ UNCHANGED <<config, activeProcesses, canProcessMore, isRunning,
                   unsettled, thenQueue, catchQueue>>
    /\ UNCHANGED <<composeVars, cropperVars, itemNodeVars>>

\* Mutant of ReceiveFails: the catch block returns without queueing
\* processMessages again.
ReceiveFailsNoTimer ==
    /\ poll = "receiving"
    /\ poll' = "idle"
    /\ UNCHANGED <<config, activeProcesses, canProcessMore, isRunning, timeout,
                   unsettled, thenQueue, catchQueue>>
    /\ UNCHANGED <<composeVars, cropperVars, itemNodeVars>>

\* Lines 340-348: the ReceiveMessage request fails; the error is logged.
ReceiveFails ==
    /\ poll = "receiving"
    /\ timeout' = "interval"
    /\ poll' = "idle"
    /\ UNCHANGED <<config, activeProcesses, canProcessMore, isRunning,
                   unsettled, thenQueue, catchQueue>>
    /\ UNCHANGED <<composeVars, cropperVars, itemNodeVars>>

\* The timer set by setTimeout(processMessages, ...) fires.
TimerFires ==
    /\ timeout # "none"
    /\ poll = "idle"
    /\ timeout' = "none"
    /\ poll' = "start"
    /\ UNCHANGED <<config, activeProcesses, canProcessMore, isRunning,
                   unsettled, thenQueue, catchQueue>>
    /\ UNCHANGED <<composeVars, cropperVars, itemNodeVars>>

\* The workflow run of an emitted message ends well: donePromise resolves.
DoneResolves ==
    /\ unsettled > 0
    /\ unsettled' = unsettled - 1
    /\ thenQueue' = thenQueue + 1
    /\ UNCHANGED <<config, activeProcesses, canProcessMore, isRunning, timeout,
                   poll, catchQueue>>
    /\ UNCHANGED <<composeVars, cropperVars, itemNodeVars>>

\* The workflow run of an emitted message fails: donePromise rejects.
DoneRejects ==
    /\ unsettled > 0
    /\ unsettled' = unsettled - 1
    /\ catchQueue' = catchQueue + 1
    /\ UNCHANGED <<config, activeProcesses, canProcessMore, isRunning, timeout,
                   poll, thenQueue>>
    /\ UNCHANGED <<composeVars, cropperVars, itemNodeVars>>

\* Lines 324-326: the .then callback.
ThenHandler ==
    /\ thenQueue > 0
    /\ thenQueue' = thenQueue - 1
    /\ activeProcesses' = activeProcesses - 1
    /\ UNCHANGED <<config, canProcessMore, isRunning, timeout, poll,
                   unsettled, catchQueue>>
    /\ UNCHANGED <<composeVars, cropperVars, itemNodeVars>>

\* Mutant of CatchHandler: the callback only logs.
CatchHandlerNoDecrement ==
    /\ catchQueue > 0
    /\ catchQueue' = catchQueue - 1
    /\ UNCHANGED <<config, activeProcesses, canProcessMore, isRunning, timeout,
                   poll, unsettled, thenQueue>>
    /\ UNCHANGED <<composeVars, cropperVars, itemNodeVars>>

\* Lines 327-333: the .catch callback.
CatchHandler ==
    /\ catchQueue > 0
    /\ catchQueue' = catchQueue - 1
    /\ activeProcesses' = activeProcesses - 1
    /\ UNCHANGED <<config, canProcessMore, isRunning, timeout, poll,
                   unsettled, thenQueue>>
    /\ UNCHANGED <<composeVars, cropperVars, itemNodeVars>>

\* Lines 353-358: closeFunction, called by n8n when the trigger is deactivated.
\* n8n's call is a task of its own: it runs while processMessages waits for
\* its timer or for the answer of SQS. Between the isRunning test of line 266
\* and the send of line 286 the only suspension is the await of
\* checkResourceUsage, whose body is synchronous, so no other task runs there.
CloseFunction ==
    /\ isRunning
    /\ poll \in {"idle", "receiving"}
    /\ isRunning' = FALSE
    /\ timeout' = "none"
    /\ UNCHANGED <<config, activeProcesses, canProcessMore, poll,
                   unsettled, thenQueue, catchQueue>>
    /\ UNCHANGED <<composeVars, cropperVars, itemNodeVars>>

TriggerNext ==
    \/ PollStart
    \/ PollRefused
    \/ PollReceive
    \/ ReceiveBatch
    \/ ReceiveNothing
    \/ ReceiveFails
    \/ TimerFires
    \/ DoneResolves
    \/ DoneRejects
    \/ ThenHandler
    \/ CatchHandler
    \/ CloseFunction

----------------------------------------------------------------------------
(* ImageCropper.execute *)

CropBinaryProp == "data"
CropOutProp == "cropped"

ResizeOptions == {"none", "ignore", "max", "min", "only_larger", "only_smaller"}

\* The binary properties an input item can carry: the image under the
\* configured property, or another property only.
CropInputBinaries ==
    { [data |-> "image:data"], [other |-> "image:other"] }

CropInputLists(n) ==
    { [k \in 1..n |-> [json |-> [id |-> k], binary |-> b[k]]] :
          b \in [1..n -> CropInputBinaries] }

NoCropCur ==
    [width |-> 0, height |-> 0, resizeOption |-> "",
     targetWidth |-> 0, targetHeight |-> 0, resized |-> FALSE, fit |-> ""]

\* Lines 122-125 and 136-142: whether the pipeline gets a resize step.
ShouldResize(resizeOption, width, height, targetWidth, targetHeight) ==
    \/ resizeOption \in {"ignore", "max", "min"}
    \/ /\ resizeOption = "only_larger"
       /\ (width > targetWidth \/ height > targetHeight)
    \/ /\ resizeOption = "only_smaller"
       /\ (width < targetWidth \/ height < targetHeight)

\* fitMap[resizeOption] ?? 'inside' of lines 127-146.
FitOf(resizeOption) ==
    IF resizeOption = "max" THEN "contain"
    ELSE IF resizeOption = "min" THEN "cover"
    ELSE IF resizeOption = "ignore" THEN "fill"
    ELSE "inside"

\* The output item of lines 153-163.
CroppedItem(item) ==
    [json |-> item.json,
     binary |-> [k \in (DOMAIN item.binary) \cup {CropOutProp} |->
                    IF k = CropOutProp THEN "image:cropped" ELSE item.binary[k]]]

CropperInit ==
    /\ cropItems \in UNION { CropInputLists(n) : n \in 0..MaxItems }
    /\ cropI = 1
    /\ cropReturnData = <<>>
    /\ cropPc = "loop"
    /\ cropCur = NoCropCur

\* Mutant of CropStartItem: an item without the binary property goes through
\* the push of lines 153-163 and gets an output property.
CropStartItemCropsMissing ==
    /\ cropPc = "loop"
    /\ cropI <= Len(cropItems)
    /\ IF CropBinaryProp \notin DOMAIN cropItems[cropI].binary
       THEN /\ cropReturnData' =
                  Append(cropReturnData,
                         [json |-> cropItems[cropI].json,
                          binary |-> [k \in (DOMAIN cropItems[cropI].binary)
                                              \cup {CropOutProp} |->
                                        IF k = CropOutProp THEN "image:cropped"
                                        ELSE cropItems[cropI].binary[k]]])
            /\ cropI' = cropI + 1
            /\ UNCHANGED <<cropPc, cropCur>>
       ELSE /\ cropPc' = "trim"
            /\ UNCHANGED <<cropI, cropReturnData, cropCur>>
    /\ UNCHANGED cropItems
    /\ UNCHANGED <<composeVars, triggerVars, itemNodeVars>>

\* Mutant of CropStartItem: an item without the binary property is skipped
\* without being pushed.
CropStartItemSkipsMissing ==
    /\ cropPc = "loop"
    /\ cropI <= Len(cropItems)
    /\ IF CropBinaryProp \notin DOMAIN cropItems[cropI].binary
       THEN /\ cropI' = cropI + 1
            /\ UNCHANGED <<cropReturnData, cropPc, cropCur>>
       ELSE /\ cropPc' = "trim"
            /\ UNCHANGED <<cropI, cropReturnData, cropCur>>
    /\ UNCHANGED cropItems
    /\ UNCHANGED <<composeVars, triggerVars, itemNodeVars>>

\* Lines 79-112: the parameters are looked up; an item without the binary
\* property is pushed as it is and the loop goes on, otherwise the trimmed
\* buffer is requested.
CropStartItem ==
    /\ cropPc = "loop"
    /\ cropI <= Len(cropItems)
    /\ IF CropBinaryProp \notin DOMAIN cropItems[cropI].binary
       THEN /\ cropReturnData' = Append(cropReturnData, cropItems[cropI])
            /\ cropI' = cropI + 1
            /\ UNCHANGED <<cropPc, cropCur>>
       ELSE /\ cropPc' = "trim"
            /\ UNCHANGED <<cropI, cropReturnData, cropCur>>
    /\ UNCHANGED cropItems
    /\ UNCHANGED <<composeVars, triggerVars, itemNodeVars>>

\* Lines 112-116: the trimmed buffer arrives and its metadata is requested.
CropTrimmed ==
    /\ cropPc = "trim"
    /\ cropPc' = "meta"
    /\ UNCHANGED <<cropItems, cropI, cropReturnData, cropCur>>
    /\ UNCHANGED <<composeVars, triggerVars, itemNodeVars>>

\* Lines 116-150: the trimmed image's width and height arrive, the resize step
\* is added when the option asks for it, and the final buffer is requested.
CropMeasured ==
    /\ cropPc = "meta"
    /\ \E width \in 1..MaxCropDim, height \in 1..MaxCropDim,
          resizeOption \in ResizeOptions,
          targetWidth \in 1..MaxCropDim, targetHeight \in 1..MaxCropDim :
         cropCur' = [width |-> width, height |-> height,
                     resizeOption |-> resizeOption,
                     targetWidth |-> targetWidth, targetHeight |-> targetHeight,
                     resized |-> ShouldResize(resizeOption, width, height,
                                              targetWidth, targetHeight),
                     fit |-> IF ShouldResize(resizeOption, width, height,
                                             targetWidth, targetHeight)
                             THEN FitOf(resizeOption) ELSE ""]
    /\ cropPc' = "final"
    /\ UNCHANGED <<cropItems, cropI, cropReturnData>>
    /\ UNCHANGED <<composeVars, triggerVars, itemNodeVars>>

\* Lines 150-164: the final buffer arrives, the output item is pushed and the
\* loop goes on.
CropEmit ==
    /\ cropPc = "final"
    /\ cropReturnData' = Append(cropReturnData, CroppedItem(cropItems[cropI]))
    /\ cropI' = cropI + 1
    /\ cropPc' = "loop"
    /\ cropCur' = NoCropCur
    /\ UNCHANGED cropItems
    /\ UNCHANGED <<composeVars, triggerVars, itemNodeVars>>

\* Any awaited sharp call (trim, metadata, toBuffer) can reject; execute holds
\* no try/catch and rejects with it.
CropSharpRejects ==
    /\ cropPc \in {"trim", "meta", "final"}
    /\ cropPc' = "thrown"
    /\ cropCur' = NoCropCur
    /\ UNCHANGED <<cropItems, cropI, cropReturnData>>
    /\ UNCHANGED <<composeVars, triggerVars, itemNodeVars>>

\* Line 166: the loop is over and returnData is returned.
CropReturnOutput ==
    /\ cropPc = "loop"
    /\ cropI > Len(cropItems)
    /\ cropPc' = "returned"
    /\ UNCHANGED <<cropItems, cropI, cropReturnData, cropCur>>
    /\ UNCHANGED <<composeVars, triggerVars, itemNodeVars>>

CropperNext ==
    \/ CropStartItem
    \/ CropTrimmed
    \/ CropMeasured
    \/ CropEmit
    \/ CropSharpRejects
    \/ CropReturnOutput

----------------------------------------------------------------------------
(* SQS Delete, SQS Reject, Liquid Template, Mustache Template: execute *)

SqsNodes == {"sqsDelete", "sqsReject"}

TemplateNodes == {"liquidTemplate", "mustacheTemplate"}

ItemNodes == SqsNodes \cup TemplateNodes

ErrParameter == "parameter error"
ErrSend == "sqs error"
ErrJson == "invalid json"
ErrRender == "template error"

\* The default of the outputKey parameter of the template nodes.
OutputKey == "renderedTemplate"

\* The json of the k-th input item: fresh, or already marked by an earlier
\* node of the same family.
NodeInputJson(k, marked) ==
    IF marked THEN [id |-> k, success |-> TRUE, error |-> "earlier"]
    ELSE [id |-> k]

NodeInputLists(n) ==
    { [k \in 1..n |-> [json |-> NodeInputJson(k, marked[k]),
                       binary |-> [data |-> "file"]]] :
          marked \in [1..n -> BOOLEAN] }

\* { ...json, ...extra }
Spread(json, extra) ==
    [key \in (DOMAIN json) \cup (DOMAIN extra) |->
        IF key \in DOMAIN extra THEN extra[key] ELSE json[key]]

\* The entry pushed in the try block of SQS Delete (part_000 lines 86-94) and
\* of SQS Reject (lines 101-110).
SqsDoneItem(nd, item, visibilityTimeout) ==
    [json |-> IF nd = "sqsDelete"
              THEN Spread(item.json, [deleted |-> TRUE, success |-> TRUE])
              ELSE Spread(item.json,
                          [rejected |-> TRUE, success |-> TRUE,
                           returnedToQueue |-> (visibilityTimeout = 0)]),
     binary |-> item.binary]

\* The entry pushed in the catch block: part_000 lines 99-108, SQSReject
\* lines 119-128, LiquidTemplate lines 136-143, MustacheTemplate lines 154-161.
FailedItem(nd, item, message) ==
    [json |-> IF nd = "sqsDelete"
              THEN Spread(item.json, [deleted |-> FALSE, success |-> FALSE,
                                      error |-> message])
              ELSE IF nd = "sqsReject"
              THEN Spread(item.json, [rejected |-> FALSE, success |-> FALSE,
                                      error |-> message])
              ELSE Spread(item.json, [error |-> message, success |-> FALSE]),
     binary |-> item.binary]

\* The entry pushed after rendering: LiquidTemplate lines 115-130,
\* MustacheTemplate lines 130-145.
RenderedItem(item, keepInputData) ==
    IF keepInputData
    THEN [json |-> Spread(item.json, OutputKey :> "rendered"),
          binary |-> item.binary]
    ELSE [json |-> OutputKey :> "rendered"]

\* execute up to the loop.
ItemNodeInit ==
    /\ node \in ItemNodes
    /\ nodeItems \in UNION {NodeInputLists(n) : n \in 0..MaxItems}
    /\ nodeI = 1
    /\ nodeReturnData = <<>>
    /\ nodePc = "loop"
    /\ nodeLog = <<>>

\* SQS Delete (part_000 lines 74-76) and SQS Reject (lines 80-89): the
\* parameters of the item are resolved before the try block; an expression
\* that fails for the item makes getNodeParameter throw, and execute rejects.
SqsReadParameters ==
    /\ node \in SqsNodes
    /\ nodePc = "loop"
    /\ nodeI <= Len(nodeItems)
    /\ \E resolved \in BOOLEAN :
          nodePc' = IF resolved THEN "send" ELSE "thrown"
    /\ UNCHANGED <<node, nodeItems, nodeI, nodeReturnData, nodeLog>>
    /\ UNCHANGED <<composeVars, triggerVars, cropperVars>>

\* part_000 lines 78-96, SQSReject lines 91-114: the command is sent and
\* SQS accepts it.
SqsSendSucceeds ==
    /\ nodePc = "send"
    /\ \E visibilityTimeout \in {0, 30} :
          nodeReturnData' =
              Append(nodeReturnData,
                     SqsDoneItem(node, nodeItems[nodeI], visibilityTimeout))
    /\ nodeLog' = Append(nodeLog, "info")
    /\ nodeI' = nodeI + 1
    /\ nodePc' = "loop"
    /\ UNCHANGED <<node, nodeItems>>
    /\ UNCHANGED <<composeVars, triggerVars, cropperVars>>

\* part_000 lines 97-109, SQSReject lines 115-129: the send fails.
SqsSendFails ==
    /\ nodePc = "send"
    /\ nodeReturnData' =
           Append(nodeReturnData, FailedItem(node, nodeItems[nodeI], ErrSend))
    /\ nodeLog' = Append(nodeLog, "error")
    /\ nodeI' = nodeI + 1
    /\ nodePc' = "loop"
    /\ UNCHANGED <<node, nodeItems>>
    /\ UNCHANGED <<composeVars, triggerVars, cropperVars>>

\* LiquidTemplate lines 98-113, MustacheTemplate lines 99-123: inside the try
\* block the parameters are resolved and customData is parsed; either can
\* throw, which the catch block reports on the item.
TemplateStartItem ==
    /\ node \in TemplateNodes
    /\ nodePc = "loop"
    /\ nodeI <= Len(nodeItems)
    /\ \/ /\ nodePc' = "render"
          /\ UNCHANGED <<nodeI, nodeReturnData, nodeLog>>
       \/ \E message \in {ErrParameter, ErrJson} :
            /\ nodeReturnData' =
                   Append(nodeReturnData,
                          FailedItem(node, nodeItems[nodeI], message))
            /\ nodeLog' = Append(nodeLog, "error")
            /\ nodeI' = nodeI + 1
            /\ UNCHANGED nodePc
    /\ UNCHANGED <<node, nodeItems>>
    /\ UNCHANGED <<composeVars, triggerVars, cropperVars>>

\* LiquidTemplate lines 113-133, MustacheTemplate lines 125-148: the template
\* is rendered and the entry pushed.
TemplateRenders ==
    /\ nodePc = "render"
    /\ \E keepInputData \in BOOLEAN :
          nodeReturnData' =
              Append(nodeReturnData,
                     RenderedItem(nodeItems[nodeI], keepInputData))
    /\ nodeLog' = Append(nodeLog, "info")
    /\ nodeI' = nodeI + 1
    /\ nodePc' = "loop"
    /\ UNCHANGED <<node, nodeItems>>
    /\ UNCHANGED <<composeVars, triggerVars, cropperVars>>

\* LiquidTemplate lines 134-144, MustacheTemplate lines 149-162: rendering
\* throws.
TemplateRenderFails ==
    /\ nodePc = "render"
    /\ nodeReturnData' =
           Append(nodeReturnData,
                  FailedItem(node, nodeItems[nodeI], ErrRender))
    /\ nodeLog' = Append(nodeLog, "error")
    /\ nodeI' = nodeI + 1
    /\ nodePc' = "loop"
    /\ UNCHANGED <<node, nodeItems>>
    /\ UNCHANGED <<composeVars, triggerVars, cropperVars>>

\* return [returnData]
ItemNodeReturnOutput ==
    /\ nodePc = "loop"
    /\ nodeI > Len(nodeItems)
    /\ nodePc' = "returned"
    /\ UNCHANGED <<node, nodeItems, nodeI, nodeReturnData, nodeLog>>
    /\ UNCHANGED <<composeVars, triggerVars, cropperVars>>

ItemNodeNext ==
    \/ SqsReadParameters
    \/ SqsSendSucceeds
    \/ SqsSendFails
    \/ TemplateStartItem
    \/ TemplateRenders
    \/ TemplateRenderFails
    \/ ItemNodeReturnOutput

----------------------------------------------------------------------------
(* Specifications *)

\* The node that a specification does not exercise rests in a fixed state.
ComposeAtRest ==
    /\ items = <<>>
    /\ i = 1
    /\ returnData = <<>>
    /\ pc = "returned"
    /\ cur = NoCur
    /\ failure = ""

TriggerAtRest ==
    /\ config = [concurrencyControl |-> "none", maxConcurrentProcesses |-> 1,
                 maxMessages |-> 1]
    /\ activeProcesses = 0
    /\ canProcessMore = TRUE
    /\ isRunning = FALSE
    /\ timeout = "none"
    /\ poll = "idle"
    /\ unsettled = 0
    /\ thenQueue = 0
    /\ catchQueue = 0

CropperAtRest ==
    /\ cropItems = <<>>
    /\ cropI = 1
    /\ cropReturnData = <<>>
    /\ cropPc = "returned"
    /\ cropCur = NoCropCur

ItemNodeAtRest ==
    /\ node = "sqsDelete"
    /\ nodeItems = <<>>
    /\ nodeI = 1
    /\ nodeReturnData = <<>>
    /\ nodePc = "returned"
    /\ nodeLog = <<>>

Init == ComposeInit /\ TriggerAtRest /\ CropperAtRest /\ ItemNodeAtRest

Next == ComposeNext

\* Image Compose.
Spec == Init /\ [][Next]_vars

InitTrigger ==
    TriggerInit /\ ComposeAtRest /\ CropperAtRest /\ ItemNodeAtRest

NextTrigger == TriggerNext

\* SQS Trigger.
SpecTrigger == InitTrigger /\ [][NextTrigger]_vars

\* What the event loop and the collaborators guarantee: a callback that is
\* ready runs (the steps of processMessages, a timer that is due, the .then
\* and .catch callbacks), SQS answers a ReceiveMessage request one way or
\* another, and the workflow run of an emitted message ends, so that its
\* donePromise settles. Nothing obliges n8n to call closeFunction.
TriggerFairness ==
    /\ WF_vars(PollStart)
    /\ WF_vars(PollRefused)
    /\ WF_vars(PollReceive)
    /\ WF_vars(ReceiveBatch \/ ReceiveNothing \/ ReceiveFails)
    /\ WF_vars(TimerFires)
    /\ WF_vars(DoneResolves \/ DoneRejects)
    /\ WF_vars(ThenHandler)
    /\ WF_vars(CatchHandler)

\* SQS Trigger on an event loop that keeps running.
SpecTriggerFair == InitTrigger /\ [][NextTrigger]_vars /\ TriggerFairness


\* Sizes in pixels and paddings of catalogue-sized images.
ExampleDims == {100, 200, 300, 400}

ExamplePaddings == {0, 10}

\* FillEntireBackground on catalogue-sized images.
FillExample == FillFrom(ExampleDims, ExamplePaddings)

\* execute with one item in FillEntireBackground mode, the background's
\* metadata just read (line 237).
InitOptimizer ==
    /\ items \in { l \in InputLists(1) : ProdProp \in DOMAIN l[1].binary }
    /\ i = 1
    /\ returnData = <<>>
    /\ pc = "fill"
    /\ cur \in { [NoCur EXCEPT !.mode = "fillAll", !.bgW = w, !.bgH = h] :
                    w \in ExampleDims, h \in ExampleDims }
    /\ failure = ""
    /\ TriggerAtRest
    /\ CropperAtRest
    /\ ItemNodeAtRest

NextOptimizer ==
    \/ FillExample
    \/ EmitFilled
    \/ ReturnOutput

\* The Rotation Optimizer within FillEntireBackground mode.
SpecOptimizer == InitOptimizer /\ [][NextOptimizer]_vars

InitImageNodes ==
    \/ ComposeInit /\ CropperAtRest /\ TriggerAtRest /\ ItemNodeAtRest
    \/ CropperInit /\ ComposeAtRest /\ TriggerAtRest /\ ItemNodeAtRest

NextImageNodes ==
    \/ ComposeNext
    \/ CropperNext

\* Image Compose or Image Cropper: one of the two nodes executes.
SpecImageNodes == InitImageNodes /\ [][NextImageNodes]_vars

InitItemNodes ==
    ItemNodeInit /\ ComposeAtRest /\ TriggerAtRest /\ CropperAtRest

NextItemNodes == ItemNodeNext

\* SQS Delete, SQS Reject, Liquid Template or Mustache Template.
SpecItemNodes == InitItemNodes /\ [][NextItemNodes]_vars

----------------------------------------------------------------------------
(* Claims: Image Compose, error handling *)

\* execute has ended: it returned, rejected, or can never settle.
ComposeEnded == pc \in {"returned", "thrown", "hung"}

\* C1: when the processing of item k fails, the items after k are still
\* processed and the node returns an output sequence: execute never ends on a
\* failed item, least of all while later items wait.
C1_FailureNeverAbortsLaterItems ==
    ComposeEnded => (pc = "returned" /\ i = Len(items) + 1)

\* C2: a failed item has an entry in the output whose json holds every field
\* of the input item's json unchanged, with success = FALSE and an error
\* message: it is never dropped.
C2_FailedItemIsReported ==
    (pc \in {"thrown", "hung"}) =>
        \E n \in 1..Len(returnData) :
            LET out == returnData[n].json
                inp == items[i].json
            IN  /\ \A f \in DOMAIN inp : f \in DOMAIN out /\ out[f] = inp[f]
                /\ {"success", "error"} \subseteq DOMAIN out
                /\ out.success = FALSE

----------------------------------------------------------------------------
(* Claims: Region Detector *)

\* The background has been scanned and whiteRect selected.
Scanned == pc = "prodMeta"

WholeCanvas == Rect(0, 0, cur.bgW, cur.bgH)

\* The set of candidate rectangles.
RectSet == { cur.rects[n] : n \in 1..Len(cur.rects) }

\* The rows a rectangle covers.
RowsOf(r) == r.y..(r.y + r.h - 1)

\* C3: when no pixel of the background is foreground, the rectangle selected
\* is the whole canvas, whatever the vertical preference.
C3_AllWhiteSelectsWholeCanvas ==
    (Scanned /\ cur.fgRows = {}) => cur.whiteRect = <<WholeCanvas>>

\* There is no candidate on the side the vertical preference names.
NoCandidateOnPreferredSide ==
    \/ cur.vPref = "top" /\ \A r \in RectSet : r.y # 0
    \/ cur.vPref = "bottom" /\ \A r \in RectSet : r.y = 0

\* C4: with preference top or bottom and no candidate on that side, the
\* largest-area candidate is used for placement instead of failing.
C4_MissingSideFallsBackToLargest ==
    (Scanned /\ NoCandidateOnPreferredSide) =>
        /\ cur.whiteRect # <<>>
        /\ cur.whiteRect[1] \in RectSet
        /\ \A r \in RectSet : Area(cur.whiteRect[1]) >= Area(r)

\* C9: top selects the candidate with y = 0, bottom the candidate with y # 0
\* (even when it is not the largest), any other preference the candidate of
\* largest area, the top one when top and bottom have the same area.
C9_SelectionFollowsPreference ==
    Scanned =>
        /\ cur.vPref = "top" =>
              \A r \in RectSet : r.y = 0 => cur.whiteRect = <<r>>
        /\ cur.vPref = "bottom" =>
              \A r \in RectSet : r.y # 0 => cur.whiteRect = <<r>>
        /\ cur.vPref \notin {"top", "bottom"} =>
              /\ cur.whiteRect # <<>>
              /\ cur.whiteRect[1] \in RectSet
              /\ \A r \in RectSet :
                    /\ Area(cur.whiteRect[1]) >= Area(r)
                    /\ Area(cur.whiteRect[1]) = Area(r) => cur.whiteRect[1].y <= r.y

\* Witness of C9: preference bottom selects the bottom candidate although the
\* top candidate is larger.
C9_Witness ==
    /\ Scanned
    /\ cur.vPref = "bottom"
    /\ Len(cur.rects) = 2
    /\ cur.whiteRect # <<>>
    /\ cur.whiteRect[1].y # 0
    /\ \E r \in RectSet : Area(r) > Area(cur.whiteRect[1])

\* The foreground rows form one contiguous band.
SingleBand ==
    /\ cur.fgRows # {}
    /\ \A y \in 0..(cur.bgH - 1) :
          (\E a \in cur.fgRows : a <= y) /\ (\E b \in cur.fgRows : y <= b)
              => y \in cur.fgRows

BandMin == CHOOSE y \in cur.fgRows : \A z \in cur.fgRows : y <= z

BandMax == CHOOSE y \in cur.fgRows : \A z \in cur.fgRows : z <= y

\* The candidates are exactly the full-width rectangle above the band (when
\* the band does not start at row 0) and the one below it (when it does not
\* end at the last row); together with the band they cover every row once,
\* and none of them holds a row of the band.
TopAndBottomOfBand ==
    /\ RectSet =
          (IF BandMin > 0 THEN {Rect(0, 0, cur.bgW, BandMin)} ELSE {})
          \cup (IF BandMax < cur.bgH - 1
                THEN {Rect(0, BandMax + 1, cur.bgW, cur.bgH - BandMax - 1)}
                ELSE {})
    /\ \A y \in 0..(cur.bgH - 1) :
          Cardinality({ n \in 1..Len(cur.rects) : y \in RowsOf(cur.rects[n]) })
             = (IF y \in cur.fgRows THEN 0 ELSE 1)

\* C10 as stated: for every background with a single contiguous band of
\* foreground rows, the candidates are exactly the rectangles above and below
\* the band.
C10_CandidatesAroundBand_Original ==
    (Scanned /\ SingleBand) => TopAndBottomOfBand

\* C10 as amended: the same, unless the band spans every row; the only
\* candidate is then the whole canvas.
C10_CandidatesAroundBand ==
    (Scanned /\ SingleBand) =>
        IF BandMin = 0 /\ BandMax = cur.bgH - 1
        THEN cur.rects = <<WholeCanvas>>
        ELSE TopAndBottomOfBand

\* Witness of C10: a band strictly inside the image, a candidate on each side.
C10_Witness ==
    /\ Scanned
    /\ SingleBand
    /\ BandMin > 0
    /\ BandMax < cur.bgH - 1
    /\ BandMin < BandMax
    /\ Len(cur.rects) = 2

----------------------------------------------------------------------------
(* Claims: Placement Planner *)

\* The offset of the scaled product has been computed in DetectWhiteRegion mode.
Placed == pc = "composite"

\* newW and newH have been computed in DetectWhiteRegion mode (line 345),
\* whether or not resize then accepted them.
Scaled ==
    \/ pc \in {"resize", "composite"}
    \/ pc = "thrown" /\ cur.scale.num > 0

AvailW == cur.whiteRect[1].w - 2 * cur.padding

AvailH == cur.whiteRect[1].h - 2 * cur.padding

\* C6: the scaled product placed at (posX, posY) lies inside the selected
\* rectangle shrunk by the padding on all sides, for every alignment.
C6_PlacementInsidePaddedRect ==
    Placed =>
        LET r == cur.whiteRect[1]
            p == cur.padding
        IN  /\ r.x + p <= cur.posX
            /\ cur.posX + cur.newW <= r.x + r.w - p
            /\ r.y + p <= cur.posY
            /\ cur.posY + cur.newH <= r.y + r.h - p

\* Witness of C6: a padded placement, aligned to the end, of a product that
\* does not fill the padded rectangle's width.
C6_Witness ==
    /\ Placed
    /\ cur.padding > 0
    /\ cur.hAlign = "end"
    /\ cur.vPref = "bottom"
    /\ cur.newW < AvailW

\* C7: the scaled dimensions do not exceed the rectangle less the padding.
C7_ScaledFitsAvailable ==
    Scaled => (cur.newW <= AvailW /\ cur.newH <= AvailH)

\* Witness of C7: a product wider than the available area, scaled down to
\* exactly the available width, its height rounded below the available height.
C7_Witness ==
    /\ Scaled
    /\ cur.padding > 0
    /\ cur.prodW > AvailW
    /\ cur.newW = AvailW
    /\ 0 < cur.newH
    /\ cur.newH < AvailH

\* C8 as stated: the scaled dimensions keep the product's aspect ratio within
\* 2%: |w'/h' - w/h| / (w/h) < 0.02, that is 50 * |w'*h - h'*w| < h'*w.
C8_AspectWithinTwoPercent_Original ==
    Scaled =>
        /\ cur.newH # 0
        /\ 50 * Abs(cur.newW * cur.prodH - cur.newH * cur.prodW)
              < cur.newH * cur.prodW

\* C8 as amended: each scaled dimension is within half a pixel of the exact
\* proportional value scale * dimension.
C8_AspectWithinRounding ==
    Scaled =>
        /\ 2 * Abs(cur.newW * cur.scale.den - cur.prodW * cur.scale.num)
              <= cur.scale.den
        /\ 2 * Abs(cur.newH * cur.scale.den - cur.prodH * cur.scale.num)
              <= cur.scale.den

\* Witness of C8: a scaled product whose height was rounded.
C8_Witness ==
    /\ Scaled
    /\ (cur.prodH * cur.scale.num) % cur.scale.den # 0
    /\ cur.newW # cur.prodW

----------------------------------------------------------------------------
(* Claims: SQS Trigger *)

\* C5: with the "fixed" control the number of messages being processed at the
\* same time never exceeds maxConcurrentProcesses, whatever maxMessages is.
C5_FixedLimitBoundsActive ==
    config.concurrencyControl = "fixed" =>
        /\ unsettled <= config.maxConcurrentProcesses
        /\ activeProcesses <= config.maxConcurrentProcesses

----------------------------------------------------------------------------
(* Claims: the rectangle used for placement *)

\* C11: in DetectWhiteRegion mode the rectangle handed to the placement
\* computation is always defined, has w > 0 and h > 0, spans the full width
\* from x = 0 and lies within the background's rows.
C11_UsedRectDefinedInsideBackground ==
    Scanned =>
        /\ cur.whiteRect # <<>>
        /\ cur.whiteRect[1].w > 0
        /\ cur.whiteRect[1].h > 0
        /\ cur.whiteRect[1].x = 0
        /\ cur.whiteRect[1].w = cur.bgW
        /\ 0 <= cur.whiteRect[1].y
        /\ cur.whiteRect[1].y + cur.whiteRect[1].h <= cur.bgH

\* The placement computation of lines 339-345 has been entered with a defined
\* rectangle, for the item execute is at or failed on.
Measured == cur.mode = "detectWhite" /\ cur.whiteRect # <<>> /\ cur.prodW > 0

C18_EndAlignsRightEdge ==
    (Placed /\ cur.hAlign = "end") =>
        cur.posX + cur.newW
            = cur.whiteRect[1].x + cur.whiteRect[1].w - cur.padding

\* Witness of C18: an end-aligned product that was scaled down and sits to the
\* right of the padded rectangle's left edge.
C18_Witness ==
    /\ Placed
    /\ cur.hAlign = "end"
    /\ cur.padding > 0
    /\ cur.scale.num < cur.scale.den
    /\ cur.posX > cur.whiteRect[1].x + cur.padding

----------------------------------------------------------------------------
(* Claims: product rotation in DetectWhiteRegion mode *)

\* C17: the rotation applied before measuring is the manual angle when it is
\* not 0, else -90 when the original's height / width exceeds 1.8, else none;
\* the measured size is the original's without rotation and the turned one's
\* (width and height exchanged by a quarter turn) with it, and the scale is
\* the smaller of availW / prodW and availH / prodH for that measured size.
C17_RotationBeforeMeasuring ==
    Measured =>
        /\ cur.tiltAngle =
              (IF cur.tiltAngleParam # 0 THEN cur.tiltAngleParam
               ELSE IF 5 * cur.prodH0 > 9 * cur.prodW0 THEN -90
               ELSE 0)
        /\ cur.tiltAngle = 0 =>
              (cur.prodW = cur.prodW0 /\ cur.prodH = cur.prodH0)
        /\ cur.tiltAngle \in {-90, 90} =>
              (cur.prodW = cur.prodH0 /\ cur.prodH = cur.prodW0)
        /\ Scaled =>
              /\ cur.scale.num * cur.prodW <= AvailW * cur.scale.den
              /\ cur.scale.num * cur.prodH <= AvailH * cur.scale.den
              /\ \/ cur.scale.num * cur.prodW = AvailW * cur.scale.den
                 \/ cur.scale.num * cur.prodH = AvailH * cur.scale.den

\* Witness of C17: a tall product, no manual angle, turned by -90 and scaled
\* from the turned size.
C17_Witness ==
    /\ Measured
    /\ Scaled
    /\ cur.tiltAngleParam = 0
    /\ cur.tiltAngle = -90
    /\ cur.prodW > cur.prodH

----------------------------------------------------------------------------
(* Claims: Rotation Optimizer and FillEntireBackground mode *)

\* The product has been fitted in FillEntireBackground mode.
Filled == pc = "fillComposite"

\* The angles -90, -85, ..., 90.
CandidateAngles == { 5 * k - 90 : k \in 0..36 }

\* C13: with a non-empty padded background findBestFitRotation returns an
\* angle among -90, -85, ..., 90 whose scaled footprint area is the largest of
\* all, the smallest such angle when several reach it, together with that
\* angle's scaled width and height.
C13_BestAngleMaximisesArea ==
    /\ Filled =>
          \E tieDown \in BOOLEAN :
             LET fp(a) == Footprint(cur.prodW, cur.prodH, cur.bgW, cur.bgH,
                                    cur.padding, tieDown, a)
                 area(a) == fp(a).w * fp(a).h
             IN  /\ cur.bestAngle \in CandidateAngles
                 /\ cur.newW = fp(cur.bestAngle).w
                 /\ cur.newH = fp(cur.bestAngle).h
                 /\ \A a \in CandidateAngles :
                       /\ area(a) <= cur.newW * cur.newH
                       /\ a < cur.bestAngle => area(a) < cur.newW * cur.newH
    /\ (cur.mode = "fillAll" /\ cur.prodW > 0 /\ pc \in {"hung", "thrown"}) =>
          (cur.bgW - 2 * cur.padding <= 0 \/ cur.bgH - 2 * cur.padding <= 0)

\* Witness of C13: for a product that is not square an angle other than a
\* quarter turn wins.
C13_Witness ==
    /\ Filled
    /\ cur.padding > 0
    /\ cur.bestAngle \notin {-90, 0, 90}
    /\ cur.prodW # cur.prodH

\* C14: in FillEntireBackground mode the alignments position the product on
\* the background less the padding: top, center, bottom set the vertical
\* offset and start, center, end the horizontal one.
C14_FillModeHonoursAlignment ==
    Filled =>
        /\ cur.vPref = "top" => cur.posY = cur.padding
        /\ cur.vPref = "bottom" => cur.posY = cur.bgH - cur.newH - cur.padding
        /\ cur.hAlign = "start" => cur.posX = cur.padding
        /\ cur.hAlign = "end" => cur.posX = cur.bgW - cur.newW - cur.padding

\* C15: for the whole canvas as rect, the same padding and no rotation, the
\* DetectWhiteRegion computation yields the scaled width and height that the
\* Rotation Optimizer computes for angle 0 from the original product.
C15_AngleZeroMatchesPlanner ==
    (Measured /\ Scaled /\ cur.whiteRect = <<WholeCanvas>> /\ cur.tiltAngle = 0) =>
        \E tieDown \in BOOLEAN :
           Footprint(cur.prodW0, cur.prodH0, cur.bgW, cur.bgH, cur.padding,
                     tieDown, 0)
             = [skip |-> FALSE, w |-> cur.newW, h |-> cur.newH]

\* Witness of C15: an unturned product scaled down into the padded whole
\* canvas, one of its sides rounded.
C15_Witness ==
    /\ Measured
    /\ Scaled
    /\ cur.whiteRect = <<WholeCanvas>>
    /\ cur.tiltAngle = 0
    /\ cur.padding > 0
    /\ (cur.prodH0 * cur.scale.num) % cur.scale.den # 0

\* Background 300x300, padding 10, product 100x400, the fit computed.
TallProductExample ==
    /\ cur.mode = "fillAll"
    /\ cur.bgW = 300 /\ cur.bgH = 300
    /\ cur.padding = 10
    /\ cur.prodW = 100 /\ cur.prodH = 400

\* C16: for a 300x300 background, padding 10 and a 100x400 product the
\* Rotation Optimizer returns an angle other than 0.
C16_TallProductIsTurned ==
    TallProductExample => (Filled /\ cur.bestAngle # 0)

\* Witness of C16: the example's fit, larger than the 70x280 of angle 0.
C16_Witness ==
    /\ TallProductExample
    /\ Filled
    /\ cur.newW * cur.newH > 70 * 280

----------------------------------------------------------------------------
(* Claims: output items *)

\* C19: every step leaves the input list as it is, and a step that emits
\* appends exactly one entry for the item being processed: its json is the
\* input's json, every binary property of the input other than the output key
\* is carried over unchanged, and the composed image is under the output key.
C19_ComposedItemKeepsInput ==
    [][ /\ items' = items
        /\ returnData' # returnData =>
              LET out == returnData'[Len(returnData')]
                  inp == items[i]
              IN  /\ returnData' = Append(returnData, out)
                  /\ out.json = inp.json
                  /\ \A k \in (DOMAIN inp.binary) \ {OutProp} :
                        k \in DOMAIN out.binary /\ out.binary[k] = inp.binary[k]
                  /\ OutProp \in DOMAIN out.binary
                  /\ out.binary[OutProp] = "image/png"
      ]_vars

\* Witness of C19: the first of two items has been composed and emitted.
C19_Witness ==
    /\ pc = "loop"
    /\ Len(items) = 2
    /\ Len(returnData) = 1
    /\ {BaseProp, ProdProp, OutProp} \subseteq DOMAIN returnData[1].binary

\* C20: whenever execute of Image Compose or of Image Cropper returns, the
\* output holds exactly one entry per input item, and the Nth entry carries
\* the json of the Nth input item.
C20_OneOutputPerInputInOrder ==
    /\ pc = "returned" =>
          /\ Len(returnData) = Len(items)
          /\ \A n \in 1..Len(items) : returnData[n].json = items[n].json
    /\ cropPc = "returned" =>
          /\ Len(cropReturnData) = Len(cropItems)
          /\ \A n \in 1..Len(cropItems) :
                cropReturnData[n].json = cropItems[n].json

\* Witness of C20: Image Cropper has returned two entries, the first passed
\* through and the second cropped.
C20_Witness ==
    /\ cropPc = "returned"
    /\ Len(cropReturnData) = 2
    /\ CropOutProp \notin DOMAIN cropReturnData[1].binary
    /\ CropOutProp \in DOMAIN cropReturnData[2].binary

----------------------------------------------------------------------------
(* Claims: Image Cropper pass-through *)

\* C21: an item without the configured binary property is passed through: the
\* entry pushed for it is the input item itself, with no output property
\* added; execute is never suspended on such an item nor fails on it, and the
\* loop moves on to the next item.
C21_MissingImagePassesThrough ==
    /\ \A n \in 1..Len(cropReturnData) :
          CropBinaryProp \notin DOMAIN cropItems[n].binary
              => cropReturnData[n] = cropItems[n]
    /\ cropPc \in {"trim", "meta", "final", "thrown"} =>
          CropBinaryProp \in DOMAIN cropItems[cropI].binary
    /\ cropPc \in {"loop", "returned"} => Len(cropReturnData) = cropI - 1

\* Witness of C21: the first of two items lacked the image, was passed
\* through, and the second is being processed.
C21_Witness ==
    /\ Len(cropItems) = 2
    /\ CropBinaryProp \notin DOMAIN cropItems[1].binary
    /\ cropReturnData = <<cropItems[1]>>
    /\ cropI = 2
    /\ cropPc = "trim"

----------------------------------------------------------------------------
(* Claims: the plan of FillEntireBackground mode, sizes handed to resize *)

\* findBestFitRotation has been called for the item (lines 248-253).
Planned == cur.mode = "fillAll" /\ cur.prodW > 0

\* C22: in FillEntireBackground mode the plan always has an angle and a
\* positive width and height; when the background less the padding is empty
\* the item fails with the insufficient-area error instead of going on with
\* an empty plan.
C22_FillPlanDefinedOrInsufficient ==
    Planned =>
        IF cur.bgW - 2 * cur.padding <= 0 \/ cur.bgH - 2 * cur.padding <= 0
        THEN pc = "thrown" /\ failure = ErrInsufficient
        ELSE /\ Filled
             /\ cur.bestAngle \in CandidateAngles
             /\ cur.newW >= 1
             /\ cur.newH >= 1

\* C30: in DetectWhiteRegion mode, when the rectangle less the padding is not
\* empty, the newW and newH handed to resize are both at least 1.
C30_ScaledAtLeastOnePixel ==
    (Measured /\ Scaled /\ AvailW > 0 /\ AvailH > 0) =>
        (cur.newW >= 1 /\ cur.newH >= 1)

----------------------------------------------------------------------------
(* Claims: SQS Trigger, the counter of active processes *)

----------------------------------------------------------------------------
(* Claims: SQS Trigger, closeFunction *)

\* C24: once closeFunction has been called no further message is emitted,
\* the messages of a ReceiveMessage request already in flight included.
C24_NoEmitAfterClose ==
    [][~isRunning => unsettled' <= unsettled]_vars

\* C25: once closeFunction has been called no ReceiveMessage request is
\* started, and a processMessages call made by a timer that a poll completing
\* after the close has set returns without polling and without setting a
\* timer.
C25_NoPollAfterClose ==
    [][~isRunning =>
          /\ poll' = "receiving" => poll = "receiving"
          /\ poll' \notin {"allowed", "refused"}
          /\ (poll = "start" /\ poll' # poll) =>
                (poll' = "idle" /\ timeout' = "none")]_vars

\* Witness of C25: the trigger is closed and the timer set by a poll that
\* completed after the close has fired.
C25_Witness == ~isRunning /\ poll = "start"

----------------------------------------------------------------------------
(* Claims: SQS Trigger, the poll loop *)

\* A processMessages invocation is in progress.
PollInProgress == poll # "idle"

\* A timer set by setTimeout(processMessages, ...) is pending.
TimerPending == timeout # "none"

\* C26: while the trigger is running, exactly one of the two holds: a
\* processMessages invocation is in progress, or a timer is pending; so there
\* are never two poll chains and the chain never ends.
C26_OnePollChain ==
    isRunning => (PollInProgress /\ ~TimerPending)
                   \/ (~PollInProgress /\ TimerPending)

\* Witness of C26: running, between two polls, after a batch was emitted.
C26_Witness ==
    /\ isRunning
    /\ ~PollInProgress
    /\ timeout = "zero"
    /\ unsettled > 0

----------------------------------------------------------------------------
(* Claims: SQS Delete, SQS Reject, Liquid Template, Mustache Template *)

====
